---- MODULE Spec2Model ----
(***************************************************************************)
(* A model of ect-smart-scan: the settings loader (helpers.read_settings   *)
(* and helpers.dict_merge), the trajectory set-up and the scan loop of     *)
(* ect-smart-scan.py, and the export utilities helpers.save_csv and        *)
(* helpers.plot_data.                                                      *)
(***************************************************************************)
EXTENDS Integers, Sequences, FiniteSets, TLC

VARIABLES
    dict1,      \* dict_merge: the mapping merged into (mutated in place)
    dict2,      \* dict_merge: the mapping merged from
    dict1_0,    \* the value of dict1 when dict_merge was called
    mpc,        \* dict_merge: "start" | "done"
    file,       \* read_settings: what yaml.safe_load returned for the file
    settings,   \* read_settings: the mapping returned
    rpc,        \* read_settings: "start" | "done" | the exception raised
    coords,     \* trajectory set-up: settings["trajectory"]["coords"]
    v,          \* trajectory set-up: settings["trajectory"]["v"], with its type
    x_list,     \* trajectory set-up: the x of every step
    y_list,     \* trajectory set-up: the y of every step
    v_list,     \* trajectory set-up: the velocity of every step
    tpc,        \* trajectory set-up: "start" | "done" | the exception raised
    files,      \* the output directory: which files of the target name exist
    call,       \* the last save_csv or plot_data call: arguments and outcome
    analysis,   \* scan: settings["trajectory"]["analysis"], a string of characters
    nfreq,      \* scan: len(settings["generator"]["signal"]["frequency"])
    idx,        \* scan: the steps of the trajectory completed
    invoked,    \* scan: the analysis procedure the last step called
    x_data,     \* scan: the accumulated samples, each the number of its step
    fidx,       \* scan: the frequencies plotted so far
    spc         \* scan: "loop" | "plot" | "save" | "done" | the exception raised

mergeVars == <<dict1, dict2, dict1_0, mpc>>
settingsVars == <<file, settings, rpc>>
trajVars == <<coords, v, x_list, y_list, v_list, tpc>>
exportVars == <<files, call>>
scanVars == <<analysis, nfreq, idx, invoked, x_data, fidx, spc>>
vars == <<mergeVars, settingsVars, trajVars, exportVars, scanVars>>

(***************************************************************************)
(* Nested mappings.  A YAML value is a scalar (a leaf) or a mapping from   *)
(* keys to values; NoValue stands for Python's None and for "no entry".    *)
(***************************************************************************)
Leaf(lv) == [kind |-> "leaf", val |-> lv]
Map(f) == [kind |-> "map", items |-> f]
NoValue == [kind |-> "none"]
IsMap(t) == t.kind = "map"
IsLeaf(t) == t.kind = "leaf"

\* dict.update without the recursion: every key of dict2 replaces dict1's.
dict_merge_shallow(d1, d2) ==
    Map([k \in DOMAIN d1.items \cup DOMAIN d2.items |->
            IF k \in DOMAIN d2.items THEN d2.items[k] ELSE d1.items[k]])

\* helpers.dict_merge: the value of dict1 after dict_merge(dict1, dict2).
\* Each key of dict2 touches dict1[k] alone, so the iteration order of
\* dict2.items() does not matter.
RECURSIVE dict_merge(_, _)
dict_merge(d1, d2) ==
    Map([k \in DOMAIN d1.items \cup DOMAIN d2.items |->
            IF k \in DOMAIN d2.items
            THEN IF k \in DOMAIN d1.items /\ IsMap(d1.items[k]) /\ IsMap(d2.items[k])
                 THEN dict_merge(d1.items[k], d2.items[k])
                 ELSE d2.items[k]
            ELSE d1.items[k]])

(***************************************************************************)
(* Paths into a nested mapping.                                            *)
(***************************************************************************)
RECURSIVE Get(_, _)
Get(t, p) ==
    IF p = <<>> THEN t
    ELSE IF IsMap(t) /\ Head(p) \in DOMAIN t.items
         THEN Get(t.items[Head(p)], Tail(p))
         ELSE NoValue

Has(t, p) == Get(t, p) # NoValue

\* The mapping whose leaves are exactly the paths of S (a prefix-free set of
\* non-empty paths), each holding the leaf value lv.
RECURSIVE TreeOf(_, _)
TreeOf(S, lv) ==
    Map([k \in {Head(p) : p \in S} |->
            IF <<k>> \in S THEN Leaf(lv)
            ELSE TreeOf({Tail(p) : p \in {q \in S : Head(q) = k}}, lv)])

\* The number of entries of a value, nested ones included.
RECURSIVE Size(_)
Size(t) ==
    IF ~IsMap(t) THEN 0
    ELSE LET RECURSIVE Sum(_)
             Sum(K) == IF K = {} THEN 0
                       ELSE LET k == CHOOSE x \in K : TRUE
                            IN 1 + Size(t.items[k]) + Sum(K \ {k})
         IN Sum(DOMAIN t.items)

(***************************************************************************)
(* dict_merge on bounded nested mappings                                   *)
(***************************************************************************)
MaxEntries == 4

Keys == {"a", "b"}
TreesOver(S) == S \cup {Map(f) : f \in UNION {[K -> S] : K \in SUBSET Keys}}
Level3(lv) == TreesOver(TreesOver(TreesOver({Leaf(lv)})))
Mappings(lv) == {t \in Level3(lv) : IsMap(t) /\ Size(t) <= MaxEntries}
Defaults == Mappings("D")
Overrides == Mappings("O")
KeyPaths == UNION {[1..n -> Keys] : n \in 1..3}

InitMergeInputs ==
    /\ dict1 \in Defaults
    /\ dict2 \in Overrides
    /\ dict1_0 = dict1
    /\ mpc = "start"

DictMerge ==
    /\ mpc = "start"
    /\ dict1' = dict_merge(dict1, dict2)
    /\ mpc' = "done"
    /\ UNCHANGED <<dict2, dict1_0>>

(***************************************************************************)
(* read_settings                                                           *)
(***************************************************************************)
\* default_settings with trajectory.init_y left out.
default_settings_no_init_y ==
    Map([sec \in {"job", "material", "oscilloscope", "trajectory"} |->
         CASE sec = "job" -> Map([k \in {"name"} |-> Leaf("TestScan")])
           [] sec = "material" -> Map([k \in {"name"} |-> Leaf("Aluminium")])
           [] sec = "oscilloscope" ->
                Map([k \in {"mode", "resolution", "active_channels", "coupling"} |->
                     CASE k = "mode" -> Leaf("MM_BLOCK")
                       [] k = "resolution" -> Leaf("12")
                       [] k = "active_channels" -> Leaf("[-1]")
                       [] k = "coupling" -> Leaf("CK_ACV")])
           [] sec = "trajectory" -> Map([k \in {"init_x"} |-> Leaf("100")])])

\* The default_settings literal of read_settings, rebuilt on every call.
default_settings ==
    Map([sec \in {"job", "material", "oscilloscope", "trajectory"} |->
         CASE sec = "job" -> Map([k \in {"name"} |-> Leaf("TestScan")])
           [] sec = "material" -> Map([k \in {"name"} |-> Leaf("Aluminium")])
           [] sec = "oscilloscope" ->
                Map([k \in {"mode", "resolution", "active_channels", "coupling"} |->
                     CASE k = "mode" -> Leaf("MM_BLOCK")
                       [] k = "resolution" -> Leaf("12")
                       [] k = "active_channels" -> Leaf("[-1]")
                       [] k = "coupling" -> Leaf("CK_ACV")])
           [] sec = "trajectory" ->
                Map([k \in {"init_x", "init_y"} |->
                     IF k = "init_x" THEN Leaf("100") ELSE Leaf("0")])])

\* The keys the scan script reads from the settings.
DefaultedKeys ==
    {<<"job", "name">>, <<"trajectory", "init_x">>, <<"trajectory", "init_y">>}
RequiredKeys ==
    {<<"trajectory", "coords">>, <<"trajectory", "v">>, <<"trajectory", "analysis">>,
     <<"generator", "signal", "frequency">>}
ScriptKeys == DefaultedKeys \cup RequiredKeys

\* What yaml.safe_load can return: a mapping giving any subset of the keys,
\* the same with the job or trajectory entry a scalar, a bare scalar, or None
\* for an empty document.
ConfigFiles ==
    {TreeOf(S, "user") : S \in SUBSET ScriptKeys}
    \cup {Map((sec :> Leaf("user")) @@ TreeOf(S, "user").items) :
             sec \in {"job", "trajectory"}, S \in SUBSET ScriptKeys}
    \cup {Leaf("user"), NoValue}

InitSettingsInputs ==
    /\ file \in ConfigFiles
    /\ settings = NoValue
    /\ rpc = "start"

\* read_settings: dict_merge(default_settings, settings) calls .items() on what
\* the file held, which only a mapping has.
ReadSettingsOk ==
    /\ rpc = "start"
    /\ IsMap(file)
    /\ settings' = dict_merge(default_settings, file)
    /\ rpc' = "done"
    /\ UNCHANGED file

ReadSettingsNotAMapping ==
    /\ rpc = "start"
    /\ ~IsMap(file)
    /\ rpc' = "AttributeError"
    /\ UNCHANGED <<file, settings>>

(***************************************************************************)
(* Trajectory set-up (ect-smart-scan.py).  Python lists are sequences: the *)
(* element at Python index i is the element i + 1 here.                    *)
(***************************************************************************)
MaxCoords == 3
MaxVelocities == 4

CoordPairs == {<<0, 1>>, <<1, 0>>}
Speeds == {1, 2}
CoordLists == UNION {[1..n -> CoordPairs] : n \in 0..MaxCoords}
\* The values the YAML file can hold under trajectory.v, by Python type.
Velocities ==
    [type : {"float", "int"}, val : Speeds]
    \cup [type : {"list"}, val : UNION {[1..n -> Speeds] : n \in 0..MaxVelocities}]
    \cup [type : {"str", "NoneType"}, val : {0}]

\* The short-list branch taking the whole list once instead of cycling it.
velocity_list_no_cycle(vs, n) ==
    IF Len(vs) < n THEN vs ELSE SubSeq(vs, 1, n)

\* The isinstance(v, list) branch; called with Len(vs) > 0 or n = 0.
velocity_list(vs, n) ==
    IF Len(vs) < n
    THEN [i \in 1..n |-> vs[((i - 1) % Len(vs)) + 1]]
    ELSE SubSeq(vs, 1, n)

InitTrajectoryInputs ==
    /\ coords \in CoordLists
    /\ v \in Velocities
    /\ x_list = <<>>
    /\ y_list = <<>>
    /\ v_list = <<>>
    /\ tpc = "start"

\* The set-up from the two list comprehensions to the end of the if-chain.
BuildTrajectory ==
    /\ tpc = "start"
    /\ x_list' = [i \in 1..Len(coords) |-> coords[i][1]]
    /\ y_list' = [i \in 1..Len(coords) |-> coords[i][2]]
    /\ CASE v.type = "float" ->
              /\ v_list' = [i \in 1..Len(coords) |-> v.val]
              /\ tpc' = "done"
         [] v.type = "list" /\ Len(v.val) < Len(coords) /\ Len(v.val) = 0 ->
              \* i % len(v) with len(v) = 0
              /\ v_list' = v_list
              /\ tpc' = "ZeroDivisionError"
         [] v.type = "list" /\ ~(Len(v.val) < Len(coords) /\ Len(v.val) = 0) ->
              /\ v_list' = velocity_list(v.val, Len(coords))
              /\ tpc' = "done"
         [] OTHER ->
              /\ v_list' = v_list
              /\ tpc' = "TypeError"
    /\ UNCHANGED <<coords, v>>

(***************************************************************************)
(* Export utilities (helpers.save_csv, helpers.plot_data).                 *)
(*                                                                         *)
(* The directory holds the files of one target name: [ext, n] is           *)
(* "name.ext" for n = 0 and "name (n).ext" for n >= 1.  A file is          *)
(* "absent", "earlier" (there before the first call) or "new" (opened for  *)
(* writing by a call).  An array is known by its shape, a sequence of      *)
(* dimensions; x, y are passed as 1-D arrays of nx, ny samples, z as an    *)
(* array of nz rows and c columns.  zlabel is a str, as at every call in   *)
(* the repository.                                                         *)
(***************************************************************************)
MaxIdx == 2
MaxSamples == 2
LongZ == 10

Exts == {"csv", "png"}
FileNames == [ext : Exts, n : 0..MaxIdx]
SampleCounts == 1..MaxSamples
Columns == {1, 2, LongZ, LongZ + 1}
NoAxis == [type |-> "NoneType", len |-> 0]
Axes(c) == {NoAxis} \cup [type : {"list", "ndarray"}, len : {c, c + 1}]
NoTarget == 0 - 1
NoCall ==
    [op |-> "none", nx |-> 0, ny |-> 0, nz |-> 0, c |-> 0, zaxis |-> NoAxis,
     flag |-> FALSE, result |-> "none", target |-> NoTarget, hdr |-> 0, rows |-> 0]

\* os.path.isfile
isfile(fs, ext, n) == [ext |-> ext, n |-> n] \in DOMAIN fs /\ fs[[ext |-> ext, n |-> n]] # "absent"

\* np.squeeze on a 1-D shape: a dimension of 1 is dropped.
squeeze(n) == IF n = 1 THEN <<>> ELSE <<n>>

\* The collision check with the while loop left out: " (1)" whenever the
\* plain name is taken.
free_name_no_loop(fs, ext) == IF isfile(fs, ext, 0) THEN 1 ELSE 0

\* "Check if the file already exists": 0 for the plain name, else the
\* value of idx the while loop stops at (n here).
RECURSIVE first_free(_, _, _)
first_free(fs, ext, n) ==
    IF isfile(fs, ext, n) THEN first_free(fs, ext, n + 1) ELSE n
free_name(fs, ext) == IF isfile(fs, ext, 0) THEN first_free(fs, ext, 1) ELSE 0

opened(fs, ext) == [fs EXCEPT ![[ext |-> ext, n |-> free_name(fs, ext)]] = "new"]

Min2(a, b) == IF a < b THEN a ELSE b

Raised(fs, exc) == [result |-> exc, files |-> fs, target |-> NoTarget, hdr |-> 0, rows |-> 0]

\* save_csv(filename, x, y, z, zaxis=zaxis, ignore_long_z_warning=flag):
\* the exception raised or "ok", the directory afterwards, the file opened,
\* the columns of the header row written and the data rows written.
save_csv(fs, nx, ny, nz, c, zaxis, flag) ==
    LET xs == squeeze(nx)
        ys == squeeze(ny)
        \* rows the writing loop completes before an index runs off y or z
        full == Min2(nx, Min2(ny, nz))
    IN  IF xs # ys /\ ys = <<>> THEN Raised(fs, "IndexError")       \* y.shape[0] of a 0-d y
        ELSE IF xs # ys /\ ys[1] # nz THEN Raised(fs, "ValueError")
        ELSE IF c # 1 /\ zaxis.type # "ndarray" THEN Raised(fs, "AttributeError") \* zaxis.shape
        ELSE IF c # 1 /\ c # zaxis.len THEN Raised(fs, "ValueError")
        ELSE IF c # 1 /\ c > LongZ /\ ~flag THEN Raised(fs, "ValueError")
        ELSE LET t == free_name(fs, "csv")
                 fs2 == opened(fs, "csv")
             IN  IF c = 1                                             \* iterating a 0-d zlabel
                 THEN [result |-> "TypeError", files |-> fs2, target |-> t, hdr |-> 0, rows |-> 0]
                 ELSE IF xs = <<>>                                    \* x.shape[0] of a 0-d x
                 THEN [result |-> "IndexError", files |-> fs2, target |-> t, hdr |-> c + 2, rows |-> 0]
                 ELSE IF full < nx
                 THEN [result |-> "IndexError", files |-> fs2, target |-> t, hdr |-> c + 2, rows |-> full]
                 ELSE [result |-> "ok", files |-> fs2, target |-> t, hdr |-> c + 2, rows |-> nx]

\* plot_data(filename, x, y, z) with a 1-D z: the possible outcomes.  What
\* the plotting library does with arrays of unequal sizes is its own affair:
\* it draws them or raises its ValueError before savefig.
plot_data(fs, nx, ny, nz) ==
    LET xs == squeeze(nx)
        ys == squeeze(ny)
        zs == squeeze(nz)
        saved == [result |-> "ok", files |-> opened(fs, "png"),
                  target |-> free_name(fs, "png"), hdr |-> 0, rows |-> 0]
    IN  IF xs # ys /\ ys # zs THEN {Raised(fs, "ValueError")}
        ELSE IF nx = ny /\ ny = nz THEN {saved}
        ELSE {saved, Raised(fs, "ValueError")}

\* The arguments of a call: every combination, and the few a run of
\* repeated calls draws from (a call that raises before opening a file, one
\* that raises after, one that succeeds).
ExportInputs ==
    {i \in [nx : SampleCounts, ny : SampleCounts, nz : SampleCounts, c : Columns,
            zaxis : UNION {Axes(c) : c \in Columns}, flag : BOOLEAN] :
        i.zaxis \in Axes(i.c)}
RepeatInputs ==
    {i \in [nx : {MaxSamples}, ny : {MaxSamples}, nz : {MaxSamples}, c : {1, 2},
            zaxis : {NoAxis} \cup [type : {"ndarray"}, len : {2, 3}], flag : {FALSE}] :
        i.c = 1 => i.zaxis = NoAxis}

InitExportInputs ==
    /\ files \in [FileNames -> {"absent", "earlier"}]
    /\ call = NoCall

SaveCsv(Inputs) ==
    /\ free_name(files, "csv") <= MaxIdx
    /\ \E i \in Inputs :
         LET r == save_csv(files, i.nx, i.ny, i.nz, i.c, i.zaxis, i.flag)
         IN  /\ files' = r.files
             /\ call' = [op |-> "save_csv", nx |-> i.nx, ny |-> i.ny, nz |-> i.nz,
                         c |-> i.c, zaxis |-> i.zaxis, flag |-> i.flag,
                         result |-> r.result, target |-> r.target,
                         hdr |-> r.hdr, rows |-> r.rows]

PlotData(Inputs) ==
    /\ free_name(files, "png") <= MaxIdx
    /\ \E i \in {[nx |-> j.nx, ny |-> j.ny, nz |-> j.nz] : j \in Inputs} :
         \E r \in plot_data(files, i.nx, i.ny, i.nz) :
            /\ files' = r.files
            /\ call' = [op |-> "plot_data", nx |-> i.nx, ny |-> i.ny, nz |-> i.nz,
                        c |-> 1, zaxis |-> NoAxis, flag |-> FALSE,
                        result |-> r.result, target |-> r.target,
                        hdr |-> r.hdr, rows |-> r.rows]

(***************************************************************************)
(* The scan loop and the output section of ect-smart-scan.py.  A string is *)
(* a sequence of one-character strings.                                    *)
(***************************************************************************)
MaxFreq == 2

UpperCase == <<"A", "B", "C", "D", "E", "F", "G", "H", "I", "J", "K", "L", "M",
               "N", "O", "P", "Q", "R", "S", "T", "U", "V", "W", "X", "Y", "Z">>
LowerCase == <<"a", "b", "c", "d", "e", "f", "g", "h", "i", "j", "k", "l", "m",
               "n", "o", "p", "q", "r", "s", "t", "u", "v", "w", "x", "y", "z">>

\* str.lower: every upper-case letter replaced, the rest kept.
lower(str) ==
    [i \in 1..Len(str) |->
        IF \E j \in 1..Len(UpperCase) : UpperCase[j] = str[i]
        THEN LowerCase[CHOOSE j \in 1..Len(UpperCase) : UpperCase[j] = str[i]]
        ELSE str[i]]

\* The spellings of a word in any letter case.
Spellings(low, up) ==
    {str \in [1..Len(low) -> {low[i] : i \in 1..Len(low)} \cup {up[i] : i \in 1..Len(up)}] :
        \A i \in 1..Len(low) : str[i] \in {low[i], up[i]}}
RmsSpellings == Spellings(<<"r", "m", "s">>, <<"R", "M", "S">>)
SpecSpellings == Spellings(<<"s", "p", "e", "c">>, <<"S", "P", "E", "C">>)
OtherAnalyses == {<<"f", "f", "t">>, <<"r", "m", "s", " ">>, <<"S", "p", "e">>}
Analyses == RmsSpellings \cup SpecSpellings \cup OtherAnalyses

\* The steps of the loop: zip stops at the shortest of the three lists.
nsteps == Min2(Len(x_list), Min2(Len(y_list), Len(v_list)))

\* What sc.linear_scan_rms / sc.linear_scan_spec return for step k: one or
\* two samples, each of x_scan, y_scan and out_scan as long.
ScanResults(k) == {[i \in 1..m |-> k] : m \in {1, 2}}

\* The directory a run starts in: the files earlier runs left, name to
\* name (k-1), for each extension.
EarlierRuns ==
    {[f \in FileNames |-> IF f.n < (IF f.ext = "csv" THEN kc ELSE kp)
                          THEN "earlier" ELSE "absent"] :
        kc \in 0..(MaxIdx + 1), kp \in 0..(MaxIdx + 1)}

InitScanInputs ==
    /\ analysis \in Analyses
    /\ nfreq \in 1..MaxFreq
    /\ \E n \in 0..MaxCoords :
          /\ x_list = [i \in 1..n |-> 0]
          /\ y_list = [i \in 1..n |-> 0]
          /\ v_list = [i \in 1..n |-> 1]
    /\ coords = <<>> /\ v = [type |-> "float", val |-> 1] /\ tpc = "done"
    /\ files \in EarlierRuns
    /\ call = NoCall
    /\ idx = 0
    /\ invoked = "none"
    /\ x_data = <<>>
    /\ fidx = 0
    /\ spc = "loop"

\* The dispatch of one step with the results written to a file as they come.
ScanStepFlushing ==
    /\ spc = "loop"
    /\ idx < nsteps
    /\ free_name(files, "csv") <= MaxIdx
    /\ lower(analysis) \in {<<"r", "m", "s">>, <<"s", "p", "e", "c">>}
    /\ \E x_scan \in ScanResults(idx) :
          x_data' = IF idx = 0 THEN x_scan ELSE x_data \o x_scan
    /\ invoked' = IF lower(analysis) = <<"r", "m", "s">> THEN "rms" ELSE "spec"
    /\ idx' = idx + 1
    /\ files' = opened(files, "csv")
    /\ UNCHANGED <<analysis, nfreq, fidx, spc, call, trajVars>>

\* One pass of the for loop: the analysis chosen by the lower-cased flag,
\* its results kept (step 0) or appended (later steps).  The move or the
\* acquisition may raise.
ScanStep ==
    /\ spc = "loop"
    /\ idx < nsteps
    /\ \/ /\ lower(analysis) = <<"r", "m", "s">>
          /\ \/ /\ \E x_scan \in ScanResults(idx) :
                      x_data' = IF idx = 0 THEN x_scan ELSE x_data \o x_scan
                /\ invoked' = "rms"
                /\ idx' = idx + 1
                /\ spc' = spc
             \/ /\ invoked' = "rms"
                /\ spc' = "ScanError"
                /\ UNCHANGED <<x_data, idx>>
       \/ /\ lower(analysis) # <<"r", "m", "s">>
          /\ lower(analysis) = <<"s", "p", "e", "c">>
          /\ \/ /\ \E x_scan \in ScanResults(idx) :
                      x_data' = IF idx = 0 THEN x_scan ELSE x_data \o x_scan
                /\ invoked' = "spec"
                /\ idx' = idx + 1
                /\ spc' = spc
             \/ /\ invoked' = "spec"
                /\ spc' = "ScanError"
                /\ UNCHANGED <<x_data, idx>>
       \/ /\ lower(analysis) # <<"r", "m", "s">>
          /\ lower(analysis) # <<"s", "p", "e", "c">>
          /\ spc' = "NotImplementedError"
          /\ UNCHANGED <<x_data, idx, invoked>>
    /\ UNCHANGED <<analysis, nfreq, fidx, files, call, trajVars>>

CallOf(op, n, c, zaxis, r) ==
    [op |-> op, nx |-> n, ny |-> n, nz |-> n, c |-> c, zaxis |-> zaxis, flag |-> FALSE,
     result |-> r.result, target |-> r.target, hdr |-> r.hdr, rows |-> r.rows]

\* After the loop, analysis "rms": h.plot_data(name, x_data, y_data, out_data).
\* With no step done x_data was never bound.
OutputRmsPlot ==
    /\ spc = "loop"
    /\ idx = nsteps
    /\ lower(analysis) = <<"r", "m", "s">>
    /\ free_name(files, "png") <= MaxIdx
    /\ IF idx = 0
       THEN spc' = "NameError" /\ UNCHANGED <<files, call>>
       ELSE \E r \in plot_data(files, Len(x_data), Len(x_data), Len(x_data)) :
               /\ files' = r.files
               /\ call' = CallOf("plot_data", Len(x_data), 1, NoAxis, r)
               /\ spc' = IF r.result = "ok" THEN "save" ELSE r.result
    /\ UNCHANGED <<analysis, nfreq, idx, invoked, x_data, fidx, trajVars>>

\* After the loop, analysis "spec": export_data is sized from out_data,
\* which is still None when no step was done.
OutputSpecStart ==
    /\ spc = "loop"
    /\ idx = nsteps
    /\ lower(analysis) # <<"r", "m", "s">>
    /\ lower(analysis) = <<"s", "p", "e", "c">>
    /\ spc' = IF idx = 0 THEN "AttributeError" ELSE "plot"
    /\ UNCHANGED <<analysis, nfreq, idx, invoked, x_data, fidx, files, call, trajVars>>

\* One pass of the loop over the frequencies: a plot of one column.
OutputSpecPlot ==
    /\ spc = "plot"
    /\ fidx < nfreq
    /\ free_name(files, "png") <= MaxIdx
    /\ \E r \in plot_data(files, Len(x_data), Len(x_data), Len(x_data)) :
          /\ files' = r.files
          /\ call' = CallOf("plot_data", Len(x_data), 1, NoAxis, r)
          /\ spc' = IF r.result = "ok" THEN spc ELSE r.result
          /\ fidx' = IF r.result = "ok" THEN fidx + 1 ELSE fidx
    /\ UNCHANGED <<analysis, nfreq, idx, invoked, x_data, trajVars>>

\* h.save_csv: of out_data with the default arguments after the rms plot, of
\* export_data (one column per frequency) with zaxis the frequency list of
\* the settings after the spec plots.
OutputSave ==
    /\ \/ spc = "save"
       \/ spc = "plot" /\ fidx = nfreq
    /\ free_name(files, "csv") <= MaxIdx
    /\ LET c == IF spc = "save" THEN 1 ELSE nfreq
           zaxis == IF spc = "save" THEN NoAxis ELSE [type |-> "list", len |-> nfreq]
           r == save_csv(files, Len(x_data), Len(x_data), Len(x_data), c, zaxis, FALSE)
       IN  /\ files' = r.files
           /\ call' = CallOf("save_csv", Len(x_data), c, zaxis, r)
           /\ spc' = IF r.result = "ok" THEN "done" ELSE r.result
    /\ UNCHANGED <<analysis, nfreq, idx, invoked, x_data, fidx, trajVars>>

\* After the loop, any other analysis: neither branch of the output section
\* is taken and the script ends.
OutputNothing ==
    /\ spc = "loop"
    /\ idx = nsteps
    /\ lower(analysis) # <<"r", "m", "s">>
    /\ lower(analysis) # <<"s", "p", "e", "c">>
    /\ spc' = "done"
    /\ UNCHANGED <<analysis, nfreq, idx, invoked, x_data, fidx, files, call, trajVars>>

(***************************************************************************)
(* Specifications                                                          *)
(***************************************************************************)
IdleMerge == dict1 = NoValue /\ dict2 = NoValue /\ dict1_0 = NoValue /\ mpc = "idle"
IdleSettings == file = NoValue /\ settings = NoValue /\ rpc = "idle"
IdleTrajectory ==
    /\ coords = <<>> /\ v = [type |-> "NoneType", val |-> 0]
    /\ x_list = <<>> /\ y_list = <<>> /\ v_list = <<>> /\ tpc = "idle"
IdleExport == files = [f \in FileNames |-> "absent"] /\ call = NoCall
IdleScan ==
    /\ analysis = <<>> /\ nfreq = 0 /\ idx = 0 /\ invoked = "none"
    /\ x_data = <<>> /\ fidx = 0 /\ spc = "idle"

InitMerge == InitMergeInputs /\ IdleSettings /\ IdleTrajectory /\ IdleExport /\ IdleScan
NextMerge == DictMerge /\ UNCHANGED <<settingsVars, trajVars, exportVars, scanVars>>
SpecMerge == InitMerge /\ [][NextMerge]_vars

InitSettings == InitSettingsInputs /\ IdleMerge /\ IdleTrajectory /\ IdleExport /\ IdleScan
NextSettings ==
    \/ ReadSettingsOk /\ UNCHANGED <<mergeVars, trajVars, exportVars, scanVars>>
    \/ ReadSettingsNotAMapping /\ UNCHANGED <<mergeVars, trajVars, exportVars, scanVars>>
SpecSettings == InitSettings /\ [][NextSettings]_vars

InitTrajectory == InitTrajectoryInputs /\ IdleMerge /\ IdleSettings /\ IdleExport /\ IdleScan
NextTrajectory == BuildTrajectory /\ UNCHANGED <<mergeVars, settingsVars, exportVars, scanVars>>
SpecTrajectory == InitTrajectory /\ [][NextTrajectory]_vars

InitExport == InitExportInputs /\ IdleMerge /\ IdleSettings /\ IdleTrajectory /\ IdleScan
\* One call, with any arguments, in any directory.
NextExport ==
    \/ call = NoCall /\ SaveCsv(ExportInputs) /\ UNCHANGED <<mergeVars, settingsVars, trajVars, scanVars>>
    \/ call = NoCall /\ PlotData(ExportInputs) /\ UNCHANGED <<mergeVars, settingsVars, trajVars, scanVars>>
SpecExport == InitExport /\ [][NextExport]_vars

\* Call after call on the same target name.
NextRepeat ==
    \/ SaveCsv(RepeatInputs) /\ UNCHANGED <<mergeVars, settingsVars, trajVars, scanVars>>
    \/ PlotData(RepeatInputs) /\ UNCHANGED <<mergeVars, settingsVars, trajVars, scanVars>>
SpecRepeat == InitExport /\ [][NextRepeat]_vars

InitScan == InitScanInputs /\ IdleMerge /\ IdleSettings
NextScan ==
    \/ ScanStep /\ UNCHANGED <<mergeVars, settingsVars>>
    \/ OutputRmsPlot /\ UNCHANGED <<mergeVars, settingsVars>>
    \/ OutputSpecStart /\ UNCHANGED <<mergeVars, settingsVars>>
    \/ OutputSpecPlot /\ UNCHANGED <<mergeVars, settingsVars>>
    \/ OutputSave /\ UNCHANGED <<mergeVars, settingsVars>>
    \/ OutputNothing /\ UNCHANGED <<mergeVars, settingsVars>>
SpecScan == InitScan /\ [][NextScan]_vars

(***************************************************************************)
(* Claims about the settings loader                                        *)
(***************************************************************************)
\* O holds a non-mapping at a proper prefix of p.
Shadowed(O, p) == \E n \in 1..(Len(p) - 1) : IsLeaf(Get(O, SubSeq(p, 1, n)))

\* C2 as stated: after dict_merge(D, O), every leaf path of D or of O holds
\* O's value if O has a value at that path, else D's original value.
C2_LeafPrecedence ==
    mpc = "done" =>
        \A p \in KeyPaths :
            (IsLeaf(Get(dict1_0, p)) \/ IsLeaf(Get(dict2, p))) =>
                Get(dict1, p) = IF Has(dict2, p) THEN Get(dict2, p) ELSE Get(dict1_0, p)

\* C2 amended: every path at which O has a value and either side holds a
\* non-mapping holds O's value; a leaf path of D at which O has no value keeps
\* D's value unless O holds a non-mapping at a proper prefix of it, and then
\* the path is gone with the sub-mapping O's value replaced.
C2_LeafPrecedenceUnlessShadowed ==
    mpc = "done" =>
        \A p \in KeyPaths :
            /\ (IsLeaf(Get(dict2, p)) \/ (Has(dict2, p) /\ IsLeaf(Get(dict1_0, p)))) =>
                   Get(dict1, p) = Get(dict2, p)
            /\ (IsLeaf(Get(dict1_0, p)) /\ ~Has(dict2, p)) =>
                   Get(dict1, p) = IF Shadowed(dict2, p) THEN NoValue ELSE Get(dict1_0, p)

\* A merge in which D's sub-mapping met a scalar of O, beside a sibling key
\* of D that O does not mention.
C2_Witness ==
    /\ mpc = "done"
    /\ \E k \in Keys : IsMap(Get(dict1_0, <<k>>)) /\ Size(Get(dict1_0, <<k>>)) > 0
                       /\ IsLeaf(Get(dict2, <<k>>))
    /\ \E k \in Keys : IsLeaf(Get(dict1_0, <<k>>)) /\ ~Has(dict2, <<k>>)

WellFormed(f) ==
    /\ IsMap(f)
    /\ \A sec \in {"job", "trajectory"} : Has(f, <<sec>>) => IsMap(Get(f, <<sec>>))

\* C8 as stated: for a well-formed file the returned settings hold every key
\* the script reads, a key the file omits holding its default value.
C8_EveryScriptKeyPresent ==
    (rpc # "start" /\ WellFormed(file)) =>
        /\ rpc = "done"
        /\ \A k \in ScriptKeys :
              /\ Has(settings, k)
              /\ ~Has(file, k) => Get(settings, k) = Get(default_settings, k)

\* C8 amended: for a file that is a mapping whose job and trajectory
\* entries, where given, are mappings, job.name, trajectory.init_x and
\* trajectory.init_y are present, with the file's value or else the default;
\* the other keys the script reads are present exactly when the file gives them.
C8_DefaultedKeysPresent ==
    (rpc # "start" /\ WellFormed(file)) =>
        /\ rpc = "done"
        /\ \A k \in DefaultedKeys :
              /\ Has(settings, k)
              /\ Get(settings, k) = IF Has(file, k) THEN Get(file, k)
                                    ELSE IF k = <<"job", "name">> THEN Leaf("TestScan")
                                    ELSE IF k = <<"trajectory", "init_x">> THEN Leaf("100")
                                    ELSE Leaf("0")
        /\ \A k \in RequiredKeys : Has(settings, k) <=> Has(file, k)

\* A file that gives trajectory.coords and omits trajectory.init_y was read.
C8_Witness ==
    /\ rpc = "done"
    /\ WellFormed(file)
    /\ Has(file, <<"trajectory", "coords">>)
    /\ ~Has(file, <<"trajectory", "init_y">>)

(***************************************************************************)
(* Claims about the trajectory set-up                                      *)
(***************************************************************************)
Aligned ==
    /\ Len(x_list) = Len(coords)
    /\ Len(y_list) = Len(coords)
    /\ Len(v_list) = Len(coords)
    /\ \A i \in 1..Len(coords) : x_list[i] = coords[i][1] /\ y_list[i] = coords[i][2]

Reconciled ==
    IF Len(v.val) < Len(coords)
    THEN \A i \in 1..Len(coords) : v_list[i] = v.val[((i - 1) % Len(v.val)) + 1]
    ELSE v_list = SubSeq(v.val, 1, Len(coords))

\* C3 as stated: for every velocity list the set-up ends with x, y and
\* velocity sequences of length N, index-aligned, the velocities cycled when
\* L < N and the first N of the list when L >= N.
C3_VelocityListReconciled ==
    (tpc # "start" /\ v.type = "list") =>
        tpc = "done" /\ Aligned /\ Reconciled

\* C3 amended: the same for every velocity list with L >= 1 or N = 0; an
\* empty velocity list with N >= 1 coordinates ends the set-up with a
\* division-by-zero error.
C3_NonEmptyVelocityListReconciled ==
    (tpc # "start" /\ v.type = "list") =>
        IF Len(v.val) = 0 /\ Len(coords) > 0
        THEN tpc = "ZeroDivisionError"
        ELSE tpc = "done" /\ Aligned /\ Reconciled

\* A velocity list of two or more was cycled past its end.
C3_Witness ==
    /\ tpc = "done"
    /\ v.type = "list"
    /\ Len(v.val) >= 2
    /\ Len(coords) > Len(v.val)

\* C4: a velocity that is a single number, int or float, is replicated N
\* times, and the type error is raised only for a velocity that is neither a
\* number nor a list.
C4_ScalarBroadcast ==
    tpc # "start" =>
        /\ v.type \in {"float", "int"} =>
              tpc = "done" /\ Aligned /\ \A i \in 1..Len(coords) : v_list[i] = v.val
        /\ tpc = "TypeError" => v.type \notin {"float", "int", "list"}

(***************************************************************************)
(* Claims about the export utilities                                       *)
(***************************************************************************)
Present(fs, ext) == {n \in 0..MaxIdx : fs[[ext |-> ext, n |-> n]] # "absent"}
\* The name the claim expects a call to write: the plain one if it is free,
\* else the smallest n >= 1 that is.
ExpectedName(fs, ext) ==
    IF 0 \notin Present(fs, ext) THEN 0
    ELSE CHOOSE n \in 1..MaxIdx :
            n \notin Present(fs, ext) /\ \A m \in 1..(n - 1) : m \in Present(fs, ext)

\* C1: no call writes to a file that existed before it; a call that writes
\* writes the plain name if it is free and else " (n)" for the smallest free
\* n >= 1, so a directory holding name, ..., name (k-1) next holds name (k) too.
C1_WritesOnlyFreshNames ==
    [][LET changed == {f \in FileNames : files'[f] # files[f]}
           ext == IF call'.op = "save_csv" THEN "csv" ELSE "png"
       IN  /\ \A f \in changed : files[f] = "absent"
           /\ (call'.target # NoTarget /\ <<files, call>>' # <<files, call>>) =>
                 /\ call'.target = ExpectedName(files, ext)
                 /\ changed = {[ext |-> ext, n |-> call'.target]}
           /\ call'.target = NoTarget => changed = {}
           /\ \A k \in 0..MaxIdx :
                 (changed # {} /\ Present(files, ext) = 0..(k - 1)) =>
                     Present(files', ext) = 0..k
      ]_vars

\* Two calls in a row wrote name and then name (1), beside an earlier file.
C1_Witness ==
    /\ call.result = "ok"
    /\ call.target = 1
    /\ \E ext \in Exts :
          /\ files[[ext |-> ext, n |-> 0]] = "new"
          /\ files[[ext |-> ext, n |-> 1]] = "new"
    /\ \E f \in FileNames : files[f] = "earlier"

CountsEqual(k) == k.nx = k.ny /\ k.ny = k.nz

\* C5: save_csv and plot_data raise a ValueError whenever the sample counts
\* of x, y and z are not all equal.
C5_UnequalCountsRaiseValueError ==
    (call.op # "none" /\ ~CountsEqual(call)) => call.result = "ValueError"

\* C6: a save_csv call that fails on a shape mismatch (x, y, z, or z's
\* columns against zaxis) or on too many columns leaves the directory as it
\* was.
C6_FailedSaveLeavesDirectory ==
    [][(/\ call'.op = "save_csv"
        /\ \/ call'.result = "ValueError"
           \/ call'.result = "IndexError" /\ call'.nx >= 2
        /\ \/ ~CountsEqual(call')
           \/ call'.c # 1 /\ call'.zaxis.len # call'.c
           \/ call'.c > LongZ /\ ~call'.flag)
       => files' = files]_vars

\* C9: with c > 1 columns and a column-label axis, save_csv raises a
\* ValueError if the axis length differs from c or if c > 10 without the
\* flag, and otherwise succeeds, writing a header of c + 2 columns and one
\* row per sample (two or more samples, the same number in x, y and z).
C9_ColumnRules ==
    (/\ call.op = "save_csv"
     /\ call.c > 1
     /\ call.zaxis # NoAxis
     /\ CountsEqual(call) /\ call.nx >= 2)
    => IF call.zaxis.len # call.c THEN call.result = "ValueError"
       ELSE IF call.c > LongZ /\ ~call.flag THEN call.result = "ValueError"
       ELSE call.result = "ok" /\ call.hdr = call.c + 2 /\ call.rows = call.nx

(***************************************************************************)
(* Claims about the scan driver                                            *)
(***************************************************************************)
NothingWritten == call = NoCall /\ \A f \in FileNames : files[f] # "new"

\* C7: "rms" in any letter case calls the RMS procedure at every step,
\* "spec" in any letter case the spectral one, and any other value ends the
\* run with a NotImplementedError, whatever the trajectory, with no file
\* written.
C7_AnalysisSelection ==
    /\ invoked = "rms" => analysis \in RmsSpellings
    /\ invoked = "spec" => analysis \in SpecSpellings
    /\ (analysis \in RmsSpellings /\ idx > 0) => invoked = "rms"
    /\ (analysis \in SpecSpellings /\ idx > 0) => invoked = "spec"
    /\ (analysis \notin RmsSpellings \cup SpecSpellings /\ spc # "loop") =>
          spc = "NotImplementedError" /\ NothingWritten

\* C10: until every step of the trajectory is done no file is written and
\* neither export utility is called; the samples are accumulated in step
\* order, those of steps 0 .. idx-1 and no others.
C10_NothingWrittenBeforeLoopEnds ==
    /\ (idx < nsteps \/ spc \in {"loop", "ScanError", "NotImplementedError"}) => NothingWritten
    /\ \A i \in 1..(Len(x_data) - 1) : x_data[i] <= x_data[i + 1]
    /\ {x_data[i] : i \in 1..Len(x_data)} = 0..(idx - 1)

\* A scan failed at a step after the first, in a directory earlier runs
\* had written to.
C10_Witness ==
    /\ spc = "ScanError"
    /\ idx >= 1
    /\ idx < nsteps
    /\ Len(x_data) > idx
    /\ \E f \in FileNames : files[f] = "earlier"

====
